---- MODULE Spec2Model ----
(***************************************************************************)
(* Model of plasmapy/physics/magnetostatics.py: the five magnetostatic     *)
(* sources (MagneticDipole, GeneralWire, FiniteStraightWire,               *)
(* InfiniteStraightWire, CircularWire), their constructors, their          *)
(* magnetic_field methods and the to_GeneralWire conversions.              *)
(*                                                                         *)
(* Numbers.  Arithmetic is exact.  A length or a coordinate x is the       *)
(* integer x*U (fixed point, unit 1/U).  A curve parameter is a record     *)
(* [r, k] standing for r/U + (k/U)*pi, so that -np.pi and np.pi are exact. *)
(* Inputs are drawn from sets on which every quotient and every norm the   *)
(* code takes of a stored vector is exactly representable; floating-point  *)
(* rounding is not modelled.  A numpy array is a record [x, y, z, nan]:    *)
(* nan is TRUE for the all-NaN array numpy produces for 0/0.               *)
(*                                                                         *)
(* Heap.  objs is the sequence of live objects (an object id is an index), *)
(* arrs the sequence of numpy arrays (an array reference is an index), so  *)
(* that two names bound to the same array, or a closure that captured      *)
(* self, are modelled as the sharing they are.                             *)
(***************************************************************************)
EXTENDS Integers, Sequences, FiniteSets, TLC

VARIABLES objs, arrs, last

vars == <<objs, arrs, last>>

\* Largest segment count n handed to GeneralWire.magnetic_field.
MaxN == 3

\* Largest number of live objects (one source and its conversions).
MaxObjs == 2

RECURSIVE Fact(_)
Fact(n) == IF n <= 1 THEN 1 ELSE n * Fact(n - 1)

\* Fixed-point unit: 1 is U.  Divisible by every n in 1..MaxN, by 2 (chord
\* midpoints) and by 25 (the unit vectors of the 3-4-5 directions).
U == 50 * Fact(MaxN)

Abs(a) == IF a < 0 THEN -a ELSE a

\* a / b for a quotient that is exact on the model's inputs.
ExactDiv(a, b) == IF b < 0 THEN (-a) \div (-b) ELSE a \div b

RECURSIVE ISqrtFrom(_, _, _)
ISqrtFrom(x, lo, hi) ==
    IF lo >= hi THEN lo
    ELSE LET mid == (lo + hi + 1) \div 2
         IN  IF mid * mid <= x THEN ISqrtFrom(x, mid, hi)
                               ELSE ISqrtFrom(x, lo, mid - 1)

\* math sqrt on perfect squares.
ISqrt(x) == ISqrtFrom(x, 0, 46340)

---------------------------------------------------------------------------
(* numpy arrays of shape (3,) *)

Vec(x, y, z) == [x |-> x, y |-> y, z |-> z, nan |-> FALSE]

NaNVec == [x |-> 0, y |-> 0, z |-> 0, nan |-> TRUE]

\* A whole-number vector <<a, b, c>> as an array.
Metres(t) == Vec(t[1] * U, t[2] * U, t[3] * U)

VAdd(a, b) ==
    IF a.nan \/ b.nan THEN NaNVec ELSE Vec(a.x + b.x, a.y + b.y, a.z + b.z)

VSub(a, b) ==
    IF a.nan \/ b.nan THEN NaNVec ELSE Vec(a.x - b.x, a.y - b.y, a.z - b.z)

\* array * scalar, the scalar in fixed point.
VScale(a, s) ==
    IF a.nan THEN NaNVec
    ELSE Vec(ExactDiv(a.x * s, U), ExactDiv(a.y * s, U), ExactDiv(a.z * s, U))

\* array / 2
VHalf(a) ==
    IF a.nan THEN NaNVec
    ELSE Vec(ExactDiv(a.x, 2), ExactDiv(a.y, 2), ExactDiv(a.z, 2))

\* np.dot, in units of 1/U^2.
DotRaw(a, b) == a.x * b.x + a.y * b.y + a.z * b.z

\* np.cross, in units of 1/U^2.
CrossRaw(a, b) ==
    IF a.nan \/ b.nan THEN NaNVec
    ELSE Vec(a.y * b.z - a.z * b.y, a.z * b.x - a.x * b.z, a.x * b.y - a.y * b.x)

\* np.cross, in fixed point.
Cross(a, b) ==
    LET c == CrossRaw(a, b)
    IN  IF c.nan THEN NaNVec
        ELSE Vec(ExactDiv(c.x, U), ExactDiv(c.y, U), ExactDiv(c.z, U))

\* np.linalg.norm of a finite array, in fixed point.
Norm(a) == ISqrt(DotRaw(a, a))

\* Fault injection for Normalize: the vector is stored as supplied.
NormalizeAsGiven(a) == a

\* a / np.linalg.norm(a): 0/0 is NaN in every component (numpy warns and
\* carries on), NaN stays NaN.
Normalize(a) ==
    IF a.nan \/ Norm(a) = 0 THEN NaNVec
    ELSE Vec(ExactDiv(a.x * U, Norm(a)), ExactDiv(a.y * U, Norm(a)),
             ExactDiv(a.z * U, Norm(a)))

\* np.linalg.norm(a) == 0, which is False for a NaN array.
NormIsZero(a) == ~a.nan /\ Norm(a) = 0

---------------------------------------------------------------------------
(* curve parameters: r/U + (k/U)*pi *)

Num(r, k) == [r |-> r, k |-> k]

Whole(i) == Num(i * U, 0)

\* np.pi
Pi == Num(0, U)

NumNeg(a) == Num(-a.r, -a.k)

NumAdd(a, b) == Num(a.r + b.r, a.k + b.k)

NumSub(a, b) == Num(a.r - b.r, a.k - b.k)

NumDivInt(a, n) == Num(ExactDiv(a.r, n), ExactDiv(a.k, n))

\* a < b, with pi taken as 355/113 (exact on the model's parameters, which
\* are whole numbers or multiples of pi, never a mixture close to zero).
NumLess(a, b) == (a.r - b.r) * 113 + (a.k - b.k) * 355 < 0

\* Quarter turns of a multiple of pi/2, in 0..3.
Quarter(t) == (ExactDiv(2 * t.k, U)) % 4

\* np.cos and np.sin at a multiple of pi/2, in fixed point.
Cos(t) == CASE Quarter(t) = 0 -> U
            [] Quarter(t) = 2 -> -U
            [] OTHER -> 0

Sin(t) == CASE Quarter(t) = 1 -> U
            [] Quarter(t) = 3 -> -U
            [] OTHER -> 0

---------------------------------------------------------------------------
(* objects *)

Null == 0

\* A function value: its code (fn), and what its closure captured: an
\* object (self) and two arrays (a, b).
Closure(fn, self, a, b) == [fn |-> fn, self |-> self, a |-> a, b |-> b]

NoClosure == Closure("none", Null, Null, Null)

\* The attributes an object of any of the five classes can have; vector
\* attributes hold array references.
BlankObj ==
    [kind |-> "none", moment |-> Null, p0 |-> Null, p1 |-> Null, p2 |-> Null,
     direction |-> Null, normal |-> Null, center |-> Null,
     axis_x |-> Null, axis_y |-> Null, radius |-> 0, current |-> 0,
     t1 |-> Num(0, 0), t2 |-> Num(0, 0),
     parametric_eq |-> NoClosure, curve |-> NoClosure,
     roots_legendre |-> <<>>, n |-> 0]

\* The outcome of a call: the heap it leaves and what the caller sees.
Effect(os, as, l) == [objs |-> os, arrs |-> as, last |-> l]

Outcome(op, self, new, status, args, out) ==
    [op |-> op, self |-> self, new |-> new, status |-> status,
     args |-> args, out |-> out]

NoOut == [shape |-> "none"]

\* A constructor that raised: nothing is bound to the half-built object, so
\* it and the arrays it allocated are gone.
Raised(op, status, args) ==
    Effect(objs, arrs, Outcome(op, Null, Null, status, args, NoOut))

\* A constructor that returned: the object is appended to the heap.
Built(op, obj, newArrs, args) ==
    Effect(Append(objs, obj), arrs \o newArrs,
           Outcome(op, Null, Len(objs) + 1, "ok", args, NoOut))

\* Reference of the i-th array a constructor allocates.
Fresh(i) == Len(arrs) + i

---------------------------------------------------------------------------
(* constructors *)

MagneticDipole_init(moment, p0) ==
    Built("MagneticDipole",
          [BlankObj EXCEPT !.kind = "MagneticDipole",
                           !.moment = Fresh(1), !.p0 = Fresh(2)],
          <<moment, p0>>,
          [moment |-> moment, p0 |-> p0])

\* Fault injection for Callable: the check is dropped.
CallableAlways(eq) == TRUE

\* callable(parametric_eq): any function object is callable, whatever
\* parameters it takes.
Callable(eq) == eq.fn # "not_callable"

GeneralWire_init(parametric_eq, t1, t2, current) ==
    LET args == [parametric_eq |-> parametric_eq, t1 |-> t1, t2 |-> t2,
                 current |-> current]
    IN  IF ~Callable(parametric_eq) THEN
            Raised("GeneralWire", "ValueError", args)
        ELSE IF ~NumLess(t1, t2) THEN
            Raised("GeneralWire", "ValueError", args)
        ELSE
            Built("GeneralWire",
                  [BlankObj EXCEPT !.kind = "GeneralWire",
                                   !.parametric_eq = parametric_eq,
                                   !.t1 = t1, !.t2 = t2,
                                   !.current = current],
                  <<>>, args)

\* Fault injection for SamePoint: the arrays compared by identity (p1 is p2),
\* which two separately built arrays never satisfy.
SamePointIdentity(p1, p2) == FALSE

\* np.all(p1 == p2)
SamePoint(p1, p2) == p1.x = p2.x /\ p1.y = p2.y /\ p1.z = p2.z

FiniteStraightWire_init(p1, p2, current) ==
    LET args == [p1 |-> p1, p2 |-> p2, current |-> current]
    IN  IF SamePoint(p1, p2) THEN
            Raised("FiniteStraightWire", "ValueError", args)
        ELSE
            Built("FiniteStraightWire",
                  [BlankObj EXCEPT !.kind = "FiniteStraightWire",
                                   !.p1 = Fresh(1), !.p2 = Fresh(2),
                                   !.current = current],
                  <<p1, p2>>, args)

InfiniteStraightWire_init(direction, p0, current) ==
    Built("InfiniteStraightWire",
          [BlankObj EXCEPT !.kind = "InfiniteStraightWire",
                           !.direction = Fresh(1), !.p0 = Fresh(2),
                           !.current = current],
          <<Normalize(direction), p0>>,
          [direction |-> direction, p0 |-> p0, current |-> current])

\* The world z-axis, np.array([0, 0, 1]).
ZAxis == Vec(0, 0, U)

\* Fault injection for InPlaneAxes: the two axes are stored without being
\* normalized.
InPlaneAxesRaw(normal) ==
    LET axis_x == Cross(ZAxis, normal)
        axis_y == Cross(normal, axis_x)
    IN  IF NormIsZero(axis_x)
        THEN [axis_x |-> Vec(U, 0, 0), axis_y |-> Vec(0, U, 0)]
        ELSE [axis_x |-> axis_x, axis_y |-> axis_y]

\* The other two axes in the disc plane, from the stored (unit) normal.
InPlaneAxes(normal) ==
    LET axis_x == Cross(ZAxis, normal)
        axis_y == Cross(normal, axis_x)
    IN  IF NormIsZero(axis_x)
        THEN [axis_x |-> Vec(U, 0, 0), axis_y |-> Vec(0, U, 0)]
        ELSE [axis_x |-> Normalize(axis_x), axis_y |-> Normalize(axis_y)]

\* scipy.special.roots_legendre(n) for n = 1: the node 0 with weight 2.
\* Nodes are kept as curve parameters in units of pi (x*np.pi).
RootsLegendre(n) == <<[x |-> Num(0, 0), w |-> 2]>>

CircularWire_init(normal, center, radius, current, n) ==
    LET args == [normal |-> normal, center |-> center, radius |-> radius,
                 current |-> current, n |-> n]
        unit == Normalize(normal)
        axes == InPlaneAxes(unit)
        self == Len(objs) + 1
    IN  IF ~(radius > 0) THEN
            Raised("CircularWire", "ValueError", args)
        ELSE
            Built("CircularWire",
                  [BlankObj EXCEPT !.kind = "CircularWire",
                                   !.normal = Fresh(1), !.center = Fresh(2),
                                   !.axis_x = Fresh(3), !.axis_y = Fresh(4),
                                   !.radius = radius, !.current = current,
                                   !.curve = Closure("circle", self,
                                                     Fresh(3), Fresh(4)),
                                   !.roots_legendre = RootsLegendre(n),
                                   !.n = n],
                  <<unit, center, axes.axis_x, axes.axis_y>>, args)

---------------------------------------------------------------------------
(* calling a curve *)

\* lambda t: p1 + (p2 - p1)*t, reversed (fault injection for LineCurve).
LineCurveReversed(p1, p2, t) == VAdd(p2, VScale(VSub(p1, p2), t.r))

\* lambda t: p1 + (p2 - p1)*t of FiniteStraightWire.to_GeneralWire.
LineCurve(p1, p2, t) == VAdd(p1, VScale(VSub(p2, p1), t.r))

\* curve(t) of CircularWire, for a scalar t or for an array of them (the two
\* branches compute the same points):
\* self.radius*(cos(t)*axis_x + sin(t)*axis_y) + self.center.
CircleCurve(radius, axis_x, axis_y, center, t) ==
    VAdd(VScale(VAdd(VScale(axis_x, Cos(t)), VScale(axis_y, Sin(t))), radius),
         center)

\* f(t) on the heap (os, as): the value returned, or the TypeError Python
\* raises when f does not take exactly one argument.
Call(f, t, os, as) ==
    CASE f.fn = "xline" -> [ok |-> TRUE, val |-> Vec(t.r, 0, 0)]
      [] f.fn = "vee" -> [ok |-> TRUE, val |-> Vec(t.r, Abs(t.r), 0)]
      [] f.fn = "line" ->
            [ok |-> TRUE, val |-> LineCurve(as[f.a], as[f.b], t)]
      [] f.fn = "circle" ->
            [ok |-> TRUE,
             val |-> CircleCurve(os[f.self].radius, as[f.a], as[f.b],
                                 as[os[f.self].center], t)]
      [] OTHER -> [ok |-> FALSE, val |-> NaNVec]

---------------------------------------------------------------------------
(* GeneralWire.magnetic_field *)

\* Fault injection for Step: one piece too many.
StepOffByOne(t1, t2, n) == NumDivInt(NumSub(t2, t1), n + 1)

\* step = (self.t2 - self.t1) / n
Step(t1, t2, n) == NumDivInt(NumSub(t2, t1), n)

\* R = p - (p2 + p1) / 2
Displacement(p, p1, p2) == VSub(p, VHalf(VAdd(p2, p1)))

\* np.cross(dl, R)/np.linalg.norm(R)**3, kept exact as the pair of the cross
\* product and |R|^2 (both in 1/U^2); r2 = 0 is the division by zero that
\* numpy turns into inf or NaN.
Term(dl, R) ==
    [c |-> CrossRaw(dl, R), r2 |-> IF R.nan THEN 0 ELSE DotRaw(R, R),
     nan |-> dl.nan \/ R.nan]

\* The state of the loop: the parameter t, the point p1, and what has been
\* computed so far (ts: the parameters the curve was called with, pts: the
\* points it returned, dl, R and the terms added to B, in order).
LoopState(t, p1, ts, pts, dl, R, B) ==
    [t |-> t, p1 |-> p1, ts |-> ts, pts |-> pts, dl |-> dl, R |-> R, B |-> B]

\* One pass of the body of `for i in range(n)`.
LoopBody(f, p, step, st, os, as) ==
    LET t  == NumAdd(st.t, step)
        p2 == Call(f, t, os, as).val
        dl == VSub(p2, st.p1)
        p1 == p2
        R  == Displacement(p, p1, p2)
    IN  LoopState(t, p1, Append(st.ts, t), Append(st.pts, p2),
                  Append(st.dl, dl), Append(st.R, R),
                  Append(st.B, Term(dl, R)))

RECURSIVE Loop(_, _, _, _, _, _, _)
Loop(f, p, step, st, i, os, as) ==
    IF i <= 0 THEN st
    ELSE Loop(f, p, step, LoopBody(f, p, step, st, os, as), i - 1, os, as)

\* Fault injection for GeneralWire_magnetic_field: the loop variable is kept
\* in self.t1 instead of a local.
GeneralWire_magnetic_field_self_t(self, p, n) ==
    LET o    == objs[self]
        f    == o.parametric_eq
        args == [p |-> p, n |-> n]
        op   == "GeneralWire.magnetic_field"
        first == Call(f, o.t1, objs, arrs)
    IN  IF ~first.ok THEN
            Effect(objs, arrs, Outcome(op, self, Null, "TypeError", args, NoOut))
        ELSE IF n = 0 THEN
            Effect(objs, arrs,
                   Outcome(op, self, Null, "ZeroDivisionError", args, NoOut))
        ELSE
            LET step == Step(o.t1, o.t2, n)
                st   == Loop(f, p, step,
                             LoopState(o.t1, first.val, <<o.t1>>, <<first.val>>,
                                       <<>>, <<>>, <<>>),
                             n, objs, arrs)
            IN  Effect([objs EXCEPT ![self].t1 = st.t], arrs,
                       Outcome(op, self, Null, "ok", args,
                               [shape |-> IF n > 0 THEN "vector" ELSE "scalar",
                                ts |-> st.ts, pts |-> st.pts, dl |-> st.dl,
                                R |-> st.R, B |-> st.B,
                                current |-> o.current]))

\* self.magnetic_field(p, n) of a GeneralWire.  B starts as the integer 0 and
\* becomes an array with the first term added, so that with no pass of the
\* loop (n < 0) the value returned is the scalar 0.
GeneralWire_magnetic_field(self, p, n) ==
    LET o    == objs[self]
        f    == o.parametric_eq
        args == [p |-> p, n |-> n]
        op   == "GeneralWire.magnetic_field"
        first == Call(f, o.t1, objs, arrs)
    IN  IF ~first.ok THEN
            Effect(objs, arrs, Outcome(op, self, Null, "TypeError", args, NoOut))
        ELSE IF n = 0 THEN
            Effect(objs, arrs,
                   Outcome(op, self, Null, "ZeroDivisionError", args, NoOut))
        ELSE
            LET step == Step(o.t1, o.t2, n)
                st   == Loop(f, p, step,
                             LoopState(o.t1, first.val, <<o.t1>>, <<first.val>>,
                                       <<>>, <<>>, <<>>),
                             n, objs, arrs)
            IN  Effect(objs, arrs,
                       Outcome(op, self, Null, "ok", args,
                               [shape |-> IF n > 0 THEN "vector" ELSE "scalar",
                                ts |-> st.ts, pts |-> st.pts, dl |-> st.dl,
                                R |-> st.R, B |-> st.B,
                                current |-> o.current]))

---------------------------------------------------------------------------
(* the closed forms and the quadrature *)

\* B of a dipole is a function of r = p - p0, m.r and |r|; they are kept
\* exact (in 1/U^2) in place of the floating-point quotient.
MagneticDipole_magnetic_field(self, p) ==
    LET o == objs[self]
        r == VSub(p, arrs[o.p0])
        m == arrs[o.moment]
    IN  Effect(objs, arrs,
               Outcome("MagneticDipole.magnetic_field", self, Null, "ok",
                       [p |-> p],
                       [shape |-> "vector", r |-> r, m |-> m,
                        mr |-> DotRaw(m, r), r2 |-> DotRaw(r, r)]))

\* The dot products and the cross product the closed form is built from.
\* p - pf differs from p - p1 by a multiple of p2 - p1, so the direction
\* np.cross(p2_p1, p - pf) is that of np.cross(p2_p1, p - p1).
FiniteStraightWire_magnetic_field(self, p) ==
    LET o     == objs[self]
        p1    == arrs[o.p1]
        p2    == arrs[o.p2]
        p2_p1 == VSub(p2, p1)
    IN  Effect(objs, arrs,
               Outcome("FiniteStraightWire.magnetic_field", self, Null, "ok",
                       [p |-> p],
                       [shape |-> "vector",
                        ratio_num |-> DotRaw(VSub(p, p1), p2_p1),
                        ratio_den |-> DotRaw(p2_p1, p2_p1),
                        cos_theta_1_num |-> DotRaw(VSub(p, p1), p2_p1),
                        cos_theta_2_num |-> DotRaw(VSub(p, p2), p2_p1),
                        B_unit |-> CrossRaw(p2_p1, VSub(p, p1)),
                        current |-> o.current]))

InfiniteStraightWire_magnetic_field(self, p) ==
    LET o == objs[self]
        r == Cross(arrs[o.direction], VSub(p, arrs[o.p0]))
    IN  Effect(objs, arrs,
               Outcome("InfiniteStraightWire.magnetic_field", self, Null, "ok",
                       [p |-> p],
                       [shape |-> "vector", r |-> r,
                        r2 |-> IF r.nan THEN 0 ELSE DotRaw(r, r),
                        current |-> o.current]))

\* dl = self.radius*(-axis_x*sin(t) + axis_y*cos(t))
Tangent(radius, axis_x, axis_y, t) ==
    VScale(VAdd(VScale(axis_x, -Sin(t)), VScale(axis_y, Cos(t))), radius)

\* One weighted integrand per quadrature node.
CircularWire_magnetic_field(self, p) ==
    LET o  == objs[self]
        xw == o.roots_legendre
        ft(k) ==
            LET t  == Num(0, xw[k].x.r)
                pt == Call(o.curve, t, objs, arrs).val
                dl == Tangent(o.radius, arrs[o.axis_x], arrs[o.axis_y], t)
                r  == VSub(p, pt)
            IN  [w |-> xw[k].w, ft |-> Term(dl, r)]
    IN  Effect(objs, arrs,
               Outcome("CircularWire.magnetic_field", self, Null, "ok",
                       [p |-> p],
                       [shape |-> "vector",
                        ft |-> [k \in 1..Len(xw) |-> ft(k)],
                        current |-> o.current]))

---------------------------------------------------------------------------
(* to_GeneralWire *)

\* The outcome of the GeneralWire constructor, seen as that of the method
\* that called it.
Returned(e, op, self) ==
    Effect(e.objs, e.arrs, [e.last EXCEPT !.op = op, !.self = self])

\* p1, p2 = self.p1, self.p2: the lambda captures the two arrays themselves.
FiniteStraightWire_to_GeneralWire(self) ==
    LET o == objs[self]
    IN  Returned(GeneralWire_init(Closure("line", Null, o.p1, o.p2),
                                  Whole(0), Whole(1), o.current),
                 "FiniteStraightWire.to_GeneralWire", self)

\* self.curve is handed over as it is: the closure built by __init__, which
\* reads self.radius and self.center when it is called.
CircularWire_to_GeneralWire(self) ==
    LET o == objs[self]
    IN  Returned(GeneralWire_init(o.curve, NumNeg(Pi), Pi, o.current),
                 "CircularWire.to_GeneralWire", self)

---------------------------------------------------------------------------
(* inputs *)

\* Positions and evaluation points (whole metres).
Points == {Metres(<<0, 0, 0>>), Metres(<<2, 0, 0>>), Metres(<<0, 1, 0>>)}

\* Vectors handed in as direction or normal: the zero vector, both senses of
\* the z-axis, two magnitudes, and directions off the axes.
Directions ==
    {Metres(<<0, 0, 0>>), Metres(<<0, 0, 1>>), Metres(<<0, 0, -1>>),
     Metres(<<0, 0, 2>>), Metres(<<1, 0, 0>>), Metres(<<3, 4, 0>>),
     Metres(<<0, 3, 4>>)}

Moments == {Metres(<<0, 0, 1>>)}

Currents == {1, 2}

Radii == {-U, 0, U, 2 * U}

\* Parameter bounds handed to GeneralWire.
Params == {Whole(-1), Whole(0), Whole(1)}

\* What a caller hands in as parametric_eq: two curves of one parameter,
\* xline(t) = (t, 0, 0) and vee(t) = (t, |t|, 0); a function of two
\* parameters; and a value that is not a function.
Equations ==
    {Closure("xline", Null, Null, Null), Closure("vee", Null, Null, Null),
     Closure("two_arg", Null, Null, Null),
     Closure("not_callable", Null, Null, Null)}

\* Segment counts.
SegmentCounts == -1..MaxN

\* Order of the quadrature of a CircularWire (scipy's nodes are rational
\* for n = 1 only).
Orders == {1}

\* cos and sin are exact at multiples of pi/2 only: a circle is cut into 1, 2
\* or 4 pieces.
Representable(self, n) ==
    IF objs[self].parametric_eq.fn = "circle" /\ n > 0 THEN 4 % n = 0 ELSE TRUE

---------------------------------------------------------------------------
(* actions *)

Apply(e) == objs' = e.objs /\ arrs' = e.arrs /\ last' = e.last

Init ==
    /\ objs = <<>>
    /\ arrs = <<>>
    /\ last = Outcome("none", Null, Null, "ok", [p |-> NaNVec], NoOut)

NewMagneticDipole ==
    /\ Len(objs) = 0
    /\ \E moment \in Moments, p0 \in Points :
          Apply(MagneticDipole_init(moment, p0))

NewGeneralWire ==
    /\ Len(objs) = 0
    /\ \E eq \in Equations, t1 \in Params, t2 \in Params, current \in Currents :
          Apply(GeneralWire_init(eq, t1, t2, current))

NewFiniteStraightWire ==
    /\ Len(objs) = 0
    /\ \E p1 \in Points, p2 \in Points, current \in Currents :
          Apply(FiniteStraightWire_init(p1, p2, current))

NewInfiniteStraightWire ==
    /\ Len(objs) = 0
    /\ \E direction \in Directions, p0 \in Points, current \in Currents :
          Apply(InfiniteStraightWire_init(direction, p0, current))

NewCircularWire ==
    /\ Len(objs) = 0
    /\ \E normal \in Directions, center \in Points, radius \in Radii,
          current \in Currents, n \in Orders :
          Apply(CircularWire_init(normal, center, radius, current, n))

Ids(kind) == {i \in 1..Len(objs) : objs[i].kind = kind}

DipoleField ==
    \E self \in Ids("MagneticDipole"), p \in Points :
        Apply(MagneticDipole_magnetic_field(self, p))

GeneralWireField ==
    \E self \in Ids("GeneralWire"), p \in Points, n \in SegmentCounts :
        /\ Representable(self, n)
        /\ Apply(GeneralWire_magnetic_field(self, p, n))

FiniteStraightWireField ==
    \E self \in Ids("FiniteStraightWire"), p \in Points :
        Apply(FiniteStraightWire_magnetic_field(self, p))

InfiniteStraightWireField ==
    \E self \in Ids("InfiniteStraightWire"), p \in Points :
        Apply(InfiniteStraightWire_magnetic_field(self, p))

CircularWireField ==
    \E self \in Ids("CircularWire"), p \in Points :
        Apply(CircularWire_magnetic_field(self, p))

FiniteStraightWireConvert ==
    /\ Len(objs) < MaxObjs
    /\ \E self \in Ids("FiniteStraightWire") :
          Apply(FiniteStraightWire_to_GeneralWire(self))

CircularWireConvert ==
    /\ Len(objs) < MaxObjs
    /\ \E self \in Ids("CircularWire") :
          Apply(CircularWire_to_GeneralWire(self))

Next ==
    \/ NewMagneticDipole
    \/ NewGeneralWire
    \/ NewFiniteStraightWire
    \/ NewInfiniteStraightWire
    \/ NewCircularWire
    \/ DipoleField
    \/ GeneralWireField
    \/ FiniteStraightWireField
    \/ InfiniteStraightWireField
    \/ CircularWireField
    \/ FiniteStraightWireConvert
    \/ CircularWireConvert

Spec == Init /\ [][Next]_vars

---------------------------------------------------------------------------
(* a caller changing a source after it was built *)

\* source.radius = radius
SetRadius ==
    \E self \in Ids("CircularWire"), radius \in {r \in Radii : r > 0} :
        /\ objs' = [objs EXCEPT ![self].radius = radius]
        /\ arrs' = arrs
        /\ last' = Outcome("setattr", self, Null, "ok",
                           [radius |-> radius], NoOut)

\* source.current = current
SetCurrent ==
    \E self \in Ids("CircularWire") \cup Ids("FiniteStraightWire"),
       current \in Currents :
        /\ objs' = [objs EXCEPT ![self].current = current]
        /\ arrs' = arrs
        /\ last' = Outcome("setattr", self, Null, "ok",
                           [current |-> current], NoOut)

\* The arrays a source stores a position in.
PositionRefs(self) ==
    CASE objs[self].kind = "FiniteStraightWire" -> {objs[self].p1, objs[self].p2}
      [] objs[self].kind = "CircularWire" -> {objs[self].center}
      [] OTHER -> {}

\* source.p1[:] = v (or p2, or center): the stored array is changed in place.
SetItem ==
    \E self \in 1..Len(objs) : \E ref \in PositionRefs(self), v \in Points :
        /\ arrs' = [arrs EXCEPT ![ref] = v]
        /\ objs' = objs
        /\ last' = Outcome("setitem", self, Null, "ok", [p |-> v], NoOut)

NextAssign ==
    \/ Next
    \/ SetRadius
    \/ SetCurrent
    \/ SetItem

SpecAssign == Init /\ [][NextAssign]_vars

---------------------------------------------------------------------------
(* properties *)

FieldOps ==
    {"MagneticDipole.magnetic_field", "GeneralWire.magnetic_field",
     "FiniteStraightWire.magnetic_field", "InfiniteStraightWire.magnetic_field",
     "CircularWire.magnetic_field"}

ConvertOps == {"FiniteStraightWire.to_GeneralWire", "CircularWire.to_GeneralWire"}

Twice(v) == VAdd(v, v)

IsZero(v) == ~v.nan /\ v.x = 0 /\ v.y = 0 /\ v.z = 0

\* d has length 1 and points the same way as v.
UnitAlong(d, v) ==
    /\ ~d.nan
    /\ DotRaw(d, d) = U * U
    /\ IsZero(CrossRaw(d, v))
    /\ DotRaw(d, v) > 0

FieldDone == last.op = "GeneralWire.magnetic_field" /\ last.status = "ok"

\* C1: in GeneralWire.magnetic_field(point, n) the displacement of the i-th
\* term is measured from the midpoint of the i-th chord,
\* R_i = point - (curve(t_{i-1}) + curve(t_i))/2, the chord is
\* dl_i = curve(t_i) - curve(t_{i-1}), and the i-th term of the sum is
\* (dl_i x R_i)/|R_i|^3.
C1_MidpointDisplacement ==
    (FieldDone /\ last.args.n >= 1) =>
        \A i \in 1..last.args.n :
            /\ Twice(last.out.R[i]) =
                   VSub(Twice(last.args.p),
                        VAdd(last.out.pts[i], last.out.pts[i + 1]))
            /\ last.out.dl[i] = VSub(last.out.pts[i + 1], last.out.pts[i])
            /\ last.out.B[i].c = CrossRaw(last.out.dl[i], last.out.R[i])

\* t1 < t2 for two parameters of the same sort (whole, or multiples of pi).
StrictlyBelow(t1, t2) ==
    \/ t1.k = t2.k /\ t1.r < t2.r
    \/ t1.r = t2.r /\ t1.k < t2.k

\* C2: construction of a degenerate source fails with an error and yields no
\* object (equal endpoints; t1 >= t2 or a curve that is not callable;
\* radius <= 0), so every object that exists has p1 /= p2, t1 < t2 or
\* radius > 0 respectively.
C2_DegenerateConstructionFails ==
    /\ (last.op = "FiniteStraightWire" /\ last.args.p1 = last.args.p2) =>
           (last.status # "ok" /\ last.new = Null /\ objs = <<>>)
    /\ (last.op = "GeneralWire"
           /\ (last.args.t1.r >= last.args.t2.r
                  \/ last.args.parametric_eq.fn = "not_callable")) =>
           (last.status # "ok" /\ last.new = Null /\ objs = <<>>)
    /\ (last.op = "CircularWire" /\ last.args.radius <= 0) =>
           (last.status # "ok" /\ last.new = Null /\ objs = <<>>)
    /\ \A i \in 1..Len(objs) :
           /\ objs[i].kind = "FiniteStraightWire" =>
                  arrs[objs[i].p1] # arrs[objs[i].p2]
           /\ objs[i].kind = "GeneralWire" =>
                  StrictlyBelow(objs[i].t1, objs[i].t2)
           /\ objs[i].kind = "CircularWire" => objs[i].radius > 0

C2_Witness ==
    /\ last.op = "FiniteStraightWire"
    /\ last.args.p1 = last.args.p2
    /\ last.status = "ValueError"

\* The curve of the wire the last call was made on.
LastCurve == objs[last.self].parametric_eq.fn

\* C3 (as stated): no field evaluation ends in an error: every
\* GeneralWire.magnetic_field call, for every n, returns a 3-vector, and a
\* curve that cannot be invoked with one scalar is rejected at construction.
C3_NoErrorAtEvaluation ==
    /\ last.op \in FieldOps =>
           (last.status = "ok" /\ last.out.shape = "vector")
    /\ (last.op = "GeneralWire"
           /\ last.args.parametric_eq.fn \in {"not_callable", "two_arg"}) =>
           last.status # "ok"

\* C3 (amended): a curve that is not callable is rejected at construction; a
\* callable that does not take one scalar is accepted and the evaluation
\* raises TypeError; with a curve of one scalar parameter, the evaluation
\* returns a 3-vector for every n >= 1, raises ZeroDivisionError for n = 0
\* and returns the scalar 0 for n < 0; the other four kinds always return a
\* 3-vector.
C3_ErrorsAtEvaluation ==
    /\ (last.op = "GeneralWire"
           /\ last.args.parametric_eq.fn = "not_callable") =>
           last.status = "ValueError"
    /\ (last.op = "GeneralWire" /\ last.args.parametric_eq.fn = "two_arg"
           /\ last.args.t1.r < last.args.t2.r) =>
           last.status = "ok"
    /\ (last.op \in FieldOps /\ last.op # "GeneralWire.magnetic_field") =>
           (last.status = "ok" /\ last.out.shape = "vector")
    /\ last.op = "GeneralWire.magnetic_field" =>
           /\ LastCurve # "not_callable"
           /\ LastCurve = "two_arg" => last.status = "TypeError"
           /\ (LastCurve # "two_arg" /\ last.args.n >= 1) =>
                  /\ last.status = "ok"
                  /\ last.out.shape = "vector"
                  /\ Len(last.out.B) = last.args.n
           /\ (LastCurve # "two_arg" /\ last.args.n = 0) =>
                  last.status = "ZeroDivisionError"
           /\ (LastCurve # "two_arg" /\ last.args.n < 0) =>
                  (last.status = "ok" /\ last.out.shape = "scalar")

\* An evaluation at a sample point of the wire: a term divides by zero and
\* the call still returns.
C3_Witness ==
    /\ FieldDone
    /\ last.args.n >= 1
    /\ \E i \in 1..Len(last.out.B) : last.out.B[i].r2 = 0

\* C4: a magnetic_field or to_GeneralWire call leaves every stored field of
\* every existing object, and every array an object stores, as it was.
C4_CallsLeaveFieldsUnchanged ==
    [][last'.op \in FieldOps \cup ConvertOps =>
          /\ Len(objs') >= Len(objs)
          /\ \A i \in 1..Len(objs) : objs'[i] = objs[i]
          /\ Len(arrs') >= Len(arrs)
          /\ \A a \in 1..Len(arrs) : arrs'[a] = arrs[a]]_vars

\* A field evaluation on a wire that came out of a conversion.
C4_Witness ==
    /\ FieldDone
    /\ last.args.n >= 1
    /\ Len(objs) = 2
    /\ objs[1].kind \in {"FiniteStraightWire", "CircularWire"}

\* The value of the curve of wire g at parameter t, on the current heap.
CurveValue(g, t) == Call(objs[g].parametric_eq, t, objs, arrs).val

\* C5: the GeneralWire returned by to_GeneralWire is independent of its
\* source: whatever is assigned to or changed in the source's fields, the
\* values of its curve and its current stay the same.
C5_ConversionIndependent ==
    [][last'.op \in {"setattr", "setitem"} =>
          \A g \in Ids("GeneralWire") :
              /\ objs'[g].current = objs[g].current
              /\ CurveValue(g, objs[g].t1)' = CurveValue(g, objs[g].t1)
              /\ CurveValue(g, objs[g].t2)' = CurveValue(g, objs[g].t2)]_vars

\* Parameters the line is sampled at: 0, 1/2, 1 and two outside [0, 1].
LineSamples == {Num(0, 0), Num(U \div 2, 0), Num(U, 0), Num(-U, 0), Num(2 * U, 0)}

\* C6: FiniteStraightWire(a, b, I).to_GeneralWire() always succeeds and
\* returns a GeneralWire with t1 = 0, t2 = 1, current I and
\* curve(t) = a + (b - a)*t, so curve(0) = a and curve(1) = b.
C6_LineConversion ==
    last.op = "FiniteStraightWire.to_GeneralWire" =>
        /\ last.status = "ok"
        /\ last.new \in 1..Len(objs)
        /\ LET g == objs[last.new]
               a == arrs[objs[last.self].p1]
               b == arrs[objs[last.self].p2]
           IN  /\ g.kind = "GeneralWire"
               /\ g.t1 = Num(0, 0)
               /\ g.t2 = Num(U, 0)
               /\ g.current = objs[last.self].current
               /\ CurveValue(last.new, Num(0, 0)) = a
               /\ CurveValue(last.new, Num(U, 0)) = b
               /\ \A t \in LineSamples :
                      LET c == CurveValue(last.new, t)
                      IN  /\ U * c.x = U * a.x + (b.x - a.x) * t.r
                          /\ U * c.y = U * a.y + (b.y - a.y) * t.r
                          /\ U * c.z = U * a.z + (b.z - a.z) * t.r

C6_Witness ==
    /\ last.op = "FiniteStraightWire.to_GeneralWire"
    /\ last.status = "ok"
    /\ objs[last.new].current = 2

\* The vector the constructor stored for the one it was handed.
StoredDirection ==
    IF last.op = "InfiniteStraightWire" THEN arrs[objs[last.new].direction]
    ELSE arrs[objs[last.new].normal]

GivenDirection ==
    IF last.op = "InfiniteStraightWire" THEN last.args.direction
    ELSE last.args.normal

BuiltDirected ==
    last.op \in {"InfiniteStraightWire", "CircularWire"} /\ last.status = "ok"

\* C7 (as stated): for every InfiniteStraightWire and CircularWire that is
\* built, the stored direction (normal) has length 1 and points the same way
\* as the vector supplied, whatever its magnitude.
C7_AlwaysUnit ==
    BuiltDirected => UnitAlong(StoredDirection, GivenDirection)

\* C7 (amended): that holds for every non-zero vector supplied; for the zero
\* vector the object is built all the same and the stored vector is NaN.
C7_UnitWhenNonzero ==
    BuiltDirected =>
        IF IsZero(GivenDirection) THEN StoredDirection.nan
        ELSE UnitAlong(StoredDirection, GivenDirection)

C7_Witness ==
    /\ BuiltDirected
    /\ GivenDirection = Metres(<<3, 4, 0>>)
    /\ StoredDirection # GivenDirection

BuiltCircle == last.op = "CircularWire" /\ last.status = "ok"

Orthonormal(normal, axis_x, axis_y) ==
    /\ ~axis_x.nan /\ ~axis_y.nan /\ ~normal.nan
    /\ DotRaw(axis_x, axis_x) = U * U
    /\ DotRaw(axis_y, axis_y) = U * U
    /\ DotRaw(axis_x, axis_y) = 0
    /\ DotRaw(axis_x, normal) = 0
    /\ DotRaw(axis_y, normal) = 0
    /\ IF IsZero(CrossRaw(Vec(0, 0, U), normal))
       THEN axis_x = Vec(U, 0, 0) /\ axis_y = Vec(0, U, 0)
       ELSE /\ IsZero(CrossRaw(axis_x, CrossRaw(Vec(0, 0, U), normal)))
            /\ DotRaw(axis_x, CrossRaw(Vec(0, 0, U), normal)) > 0
            /\ IsZero(CrossRaw(axis_y, CrossRaw(normal, axis_x)))
            /\ DotRaw(axis_y, CrossRaw(normal, axis_x)) > 0

LastAxes ==
    [normal |-> arrs[objs[last.new].normal],
     axis_x |-> arrs[objs[last.new].axis_x],
     axis_y |-> arrs[objs[last.new].axis_y]]

\* C8 (as stated): for every CircularWire that is built, axis_x and axis_y
\* have length 1, are perpendicular to each other and to normal; they are
\* (1,0,0) and (0,1,0) when z x normal = 0, and along z x normal and
\* normal x axis_x otherwise.
C8_AxesOrthonormal ==
    BuiltCircle => Orthonormal(LastAxes.normal, LastAxes.axis_x, LastAxes.axis_y)

\* C8 (amended): that holds for every CircularWire built from a non-zero
\* normal; built from the zero vector, normal and both axes are NaN.
C8_AxesOrthonormalWhenNonzero ==
    BuiltCircle =>
        IF IsZero(last.args.normal)
        THEN LastAxes.normal.nan /\ LastAxes.axis_x.nan /\ LastAxes.axis_y.nan
        ELSE Orthonormal(LastAxes.normal, LastAxes.axis_x, LastAxes.axis_y)

\* A normal off the z-axis and out of the x-y plane: z x normal is shorter
\* than 1 and has to be normalized.
C8_Witness ==
    /\ BuiltCircle
    /\ last.args.normal = Metres(<<0, 3, 4>>)
    /\ LastAxes.axis_x = Vec(-U, 0, 0)

RECURSIVE VSum(_, _)
VSum(seq, i) == IF i = 0 THEN Vec(0, 0, 0) ELSE VAdd(VSum(seq, i - 1), seq[i])

\* C9: GeneralWire.magnetic_field(point, n) with n >= 1 calls the curve
\* exactly n + 1 times, at t_i = t1 + i*(t2 - t1)/n for i = 0..n in
\* increasing order; the i-th chord is curve(t_i) - curve(t_{i-1}) and the
\* chords sum to curve(t2) - curve(t1).
C9_UniformPartition ==
    (FieldDone /\ last.args.n >= 1) =>
        LET n  == last.args.n
            g  == objs[last.self]
            ts == last.out.ts
        IN  /\ Len(ts) = n + 1
            /\ Len(last.out.pts) = n + 1
            /\ Len(last.out.dl) = n
            /\ ts[1] = g.t1
            /\ ts[n + 1] = g.t2
            /\ \A i \in 0..n :
                   /\ n * (ts[i + 1].r - g.t1.r) = i * (g.t2.r - g.t1.r)
                   /\ n * (ts[i + 1].k - g.t1.k) = i * (g.t2.k - g.t1.k)
                   /\ last.out.pts[i + 1] = CurveValue(last.self, ts[i + 1])
            /\ \A i \in 1..n :
                   /\ StrictlyBelow(ts[i], ts[i + 1])
                   /\ last.out.dl[i] =
                          VSub(CurveValue(last.self, ts[i + 1]),
                               CurveValue(last.self, ts[i]))
            /\ VSum(last.out.dl, n) =
                   VSub(CurveValue(last.self, g.t2), CurveValue(last.self, g.t1))

\* The vee curve cut in MaxN pieces: the chords are not collinear.
C9_Witness ==
    /\ FieldDone
    /\ last.args.n >= 2
    /\ LastCurve = "vee"
    /\ objs[last.self].t1 = Whole(-1)
    /\ objs[last.self].t2 = Whole(1)

\* C10: for every CircularWire that is built (with a normal of length 1),
\* axis_x x axis_y = normal: the triple is right-handed, also for a normal
\* antiparallel to the z-axis.
C10_RightHanded ==
    (BuiltCircle /\ ~LastAxes.normal.nan) =>
        CrossRaw(LastAxes.axis_x, LastAxes.axis_y)
            = Vec(U * LastAxes.normal.x, U * LastAxes.normal.y,
                  U * LastAxes.normal.z)

====
